---------------------------- MODULE Spec2Model ----------------------------
(***************************************************************************)
(* SQL Smart Lab (src/src/App.js): the live draft interpretation of the    *)
(* editor, the roadmap generator and the execution of a statement.         *)
(*                                                                         *)
(* A text is a sequence of one-character strings, so that the regular      *)
(* expressions of the source are matched character by character.           *)
(***************************************************************************)
EXTENDS Integers, Sequences, FiniteSets, TLC

(***************************************************************************)
(* Characters and texts                                                    *)
(***************************************************************************)
LowerSeq ==
  <<"a","b","c","d","e","f","g","h","i","j","k","l","m",
    "n","o","p","q","r","s","t","u","v","w","x","y","z">>

UpperSeq ==
  <<"A","B","C","D","E","F","G","H","I","J","K","L","M",
    "N","O","P","Q","R","S","T","U","V","W","X","Y","Z">>

LowerSet == {LowerSeq[i] : i \in 1..26}

UpperSet == {UpperSeq[i] : i \in 1..26}

DigitSet == {"0","1","2","3","4","5","6","7","8","9"}

UpTable == [c \in LowerSet |-> UpperSeq[CHOOSE i \in 1..26 : LowerSeq[i] = c]]

LowTable == [c \in UpperSet |-> LowerSeq[CHOOSE i \in 1..26 : UpperSeq[i] = c]]

UpChar(c) == IF c \in LowerSet THEN UpTable[c] ELSE c

LowChar(c) == IF c \in UpperSet THEN LowTable[c] ELSE c

\* String.prototype.toUpperCase / toLowerCase
toUpperCase(s) == [i \in 1..Len(s) |-> UpChar(s[i])]

toLowerCase(s) == [i \in 1..Len(s) |-> LowChar(s[i])]

\* the classes \s and \w of the regular expressions
IsSpace(c) == c \in {" ", "\n", "\t"}

IsWord(c) == c \in LowerSet \cup UpperSet \cup DigitSet \cup {"_"}

IsQuote(c) == c \in {"'", "\""}

Min(S) == CHOOSE x \in S : \A y \in S : x <= y

Max(S) == CHOOSE x \in S : \A y \in S : y <= x

\* the flattening of a sequence of texts into one text
RECURSIVE Cat(_)
Cat(ss) == IF ss = <<>> THEN <<>> ELSE Head(ss) \o Cat(Tail(ss))

\* the first index >= i of s that is not a white space (Len(s)+1 if none): \s*
SkipSpaces(s, i) ==
  LET stops == {j \in i..Len(s) : ~IsSpace(s[j])}
  IN  IF stops = {} THEN Len(s) + 1 ELSE Min(stops)

\* the first index >= i of s that is not a word character: \w* (greedy)
SkipWord(s, i) ==
  LET stops == {j \in i..Len(s) : ~IsWord(s[j])}
  IN  IF stops = {} THEN Len(s) + 1 ELSE Min(stops)

\* the literal lit (upper case) stands at index i of s, whatever the case (/i)
MatchLit(s, i, lit) ==
  /\ i >= 1
  /\ i + Len(lit) - 1 <= Len(s)
  /\ \A k \in 1..Len(lit) : UpChar(s[i + k - 1]) = lit[k]

\* String.prototype.includes: lit occurs in s (case sensitive)
includes(s, lit) ==
  \E i \in 1..(Len(s) - Len(lit) + 1) :
    \A k \in 1..Len(lit) : s[i + k - 1] = lit[k]

\* String.prototype.trim
trim(s) ==
  LET keep == {j \in 1..Len(s) : ~IsSpace(s[j])}
  IN  IF keep = {} THEN <<>> ELSE SubSeq(s, Min(keep), Max(keep))

\* String.prototype.split on a set of separator indices of s
RECURSIVE SplitAt(_, _, _)
SplitAt(s, seps, from) ==
  LET next == {j \in seps : j >= from}
  IN  IF next = {} THEN <<SubSeq(s, from, Len(s))>>
      ELSE <<SubSeq(s, from, Min(next) - 1)>> \o SplitAt(s, seps, Min(next) + 1)

(***************************************************************************)
(* The words of the source                                                 *)
(***************************************************************************)
SP == <<" ">>

W_INSERT == <<"I","N","S","E","R","T">>

W_INTO == <<"I","N","T","O">>

W_FROM == <<"F","R","O","M">>

W_UPDATE == <<"U","P","D","A","T","E">>

W_TABLE == <<"T","A","B","L","E">>

W_CREATE == <<"C","R","E","A","T","E">>

W_VALUES == <<"V","A","L","U","E","S">>

W_DELETE == <<"D","E","L","E","T","E">>

W_DROP == <<"D","R","O","P">>

W_SELECT == <<"S","E","L","E","C","T">>

W_INT == <<"I","N","T">>

W_VARCHAR == <<"V","A","R","C","H","A","R">>

W_PRIMARY == <<"P","R","I","M","A","R","Y">>

W_FOREIGN == <<"F","O","R","E","I","G","N">>

W_CONSTRAINT == <<"C","O","N","S","T","R","A","I","N","T">>

W_KEY == <<"K","E","Y">>

W_student == <<"s","t","u","d","e","n","t">>

W_department == <<"d","e","p","a","r","t","m","e","n","t">>

W_courses == <<"c","o","u","r","s","e","s">>

(***************************************************************************)
(* JavaScript values                                                       *)
(***************************************************************************)
\* the value null (activeSchema, the result of parseSchema)
null == [isNull |-> TRUE]

\* a failed String.prototype.match: no table name (a capture of \w+ is never empty)
NoMatch == <<>>

(***************************************************************************)
(* 1. SCHEMA_REGISTRY                                                      *)
(***************************************************************************)
W_emp_id == <<"e","m","p","_","i","d">>

W_emp_name == <<"e","m","p","_","n","a","m","e">>

W_departmenit_id == <<"d","e","p","a","r","t","m","e","n","i","t","_","i","d">>

RegistryNames == {W_student, W_department, W_courses}

SCHEMA_REGISTRY ==
  [n \in RegistryNames |->
     IF n = W_student
       THEN <<[name |-> W_emp_id], [name |-> W_emp_name], [name |-> W_departmenit_id]>>
     ELSE IF n = W_department
       THEN <<[name |-> <<"d","e","p","t","_","i","d">>],
              [name |-> <<"d","e","p","t","_","n","a","m","e">>],
              [name |-> <<"l","o","c","a","t","i","o","n">>]>>
     ELSE <<[name |-> <<"c","o","u","r","s","e","_","i","d">>],
            [name |-> <<"c","o","u","r","s","e","_","t","i","t","l","e">>],
            [name |-> <<"c","r","e","d","i","t","s">>]>>]

\* the lower-case names SCHEMA_REGISTRY[name] finds without an entry of their
\* own: the members the object literal inherits from Object.prototype
InheritedNames ==
  {<<"c","o","n","s","t","r","u","c","t","o","r">>, <<"_","_","p","r","o","t","o","_","_">>}

(***************************************************************************)
(* Table detection: text.match(/(?:A|B|...)\s+(\w+)/i)                     *)
(* An alternative is a sequence of literals separated by \s+.              *)
(***************************************************************************)
\* handleEditorChange: /(?:INSERT\s+INTO|FROM|UPDATE|TABLE)\s+(\w+)/i
EditorPatterns == <<(<<W_INSERT, W_INTO>>), (<<W_FROM>>), (<<W_UPDATE>>), (<<W_TABLE>>)>>

\* runQuery: /(?:FROM|TABLE|UPDATE|INSERT\s+INTO|INTO)\s+(\w+)/i
RunPatterns ==
  <<(<<W_FROM>>), (<<W_TABLE>>), (<<W_UPDATE>>), (<<W_INSERT, W_INTO>>), (<<W_INTO>>)>>

\* the index after the alternative alt matched at index i of s; 0: no match
RECURSIVE AltEnd(_, _, _)
AltEnd(s, i, alt) ==
  IF ~MatchLit(s, i, Head(alt)) THEN 0
  ELSE LET e == i + Len(Head(alt))
       IN  IF Len(alt) = 1 THEN e
           ELSE LET j == SkipSpaces(s, e)
                IN  IF j = e THEN 0 ELSE AltEnd(s, j, Tail(alt))

\* \s+(\w+) matched at index e of s: the captured word, NoMatch otherwise
CaptureAfter(s, e) ==
  LET j == SkipSpaces(s, e)
      k == SkipWord(s, j)
  IN  IF e >= 1 /\ j > e /\ k > j THEN SubSeq(s, j, k - 1) ELSE NoMatch

\* the capture of alternative number a of pats matched at index i of s
AltCapture(s, i, pats, a) ==
  LET e == AltEnd(s, i, pats[a])
  IN  IF e = 0 THEN NoMatch ELSE CaptureAfter(s, e)

\* the whole pattern tried at index i: the alternatives in their order
TableMatchAt(s, i, pats) ==
  LET ok == {a \in 1..Len(pats) : AltCapture(s, i, pats, a) # NoMatch}
  IN  IF ok = {} THEN NoMatch ELSE AltCapture(s, i, pats, Min(ok))

\* a selection by the order of the alternatives instead of the position
matchTableByPriority(s, pats) ==
  LET ok == {a \in 1..Len(pats) :
               \E i \in 1..Len(s) : AltCapture(s, i, pats, a) # NoMatch}
  IN  IF ok = {} THEN NoMatch
      ELSE LET a == Min(ok)
               at == {i \in 1..Len(s) : AltCapture(s, i, pats, a) # NoMatch}
           IN  AltCapture(s, Min(at), pats, a)

\* String.prototype.match without /g: the match at the leftmost index
matchTable(s, pats) ==
  LET at == {i \in 1..Len(s) : TableMatchAt(s, i, pats) # NoMatch}
  IN  IF at = {} THEN NoMatch ELSE TableMatchAt(s, Min(at), pats)

(***************************************************************************)
(* 2. parseSchema                                                          *)
(***************************************************************************)
\* /CREATE\s+TABLE\s+(\w+)\s*\(([\s\S]*)\)/i tried at index i of s:
\* <<table name, column list>>, or <<>> when it does not match there.
\* [\s\S]* is greedy: the column list ends before the LAST ")" of the text.
CreateMatchAt(s, i) ==
  IF ~MatchLit(s, i, W_CREATE) THEN <<>>
  ELSE LET e1 == i + Len(W_CREATE)
           j1 == SkipSpaces(s, e1)
       IN  IF j1 = e1 \/ ~MatchLit(s, j1, W_TABLE) THEN <<>>
           ELSE LET e2 == j1 + Len(W_TABLE)
                    j2 == SkipSpaces(s, e2)
                    k  == SkipWord(s, j2)
                    p  == SkipSpaces(s, k)
                    closes == {q \in (p + 1)..Len(s) : s[q] = ")"}
                IN  IF j2 = e2 \/ k = j2 \/ p > Len(s) THEN <<>>
                    ELSE IF s[p] # "(" \/ closes = {} THEN <<>>
                    ELSE <<SubSeq(s, j2, k - 1), SubSeq(s, p + 1, Max(closes) - 1)>>

\* (?![^(]*\)) after index j of c fails to hold when a ")" follows with no "(" between
ClosesBeforeOpens(c, j) ==
  \E k \in (j + 1)..Len(c) :
    /\ c[k] = ")"
    /\ \A m \in (j + 1)..(k - 1) : c[m] # "("

\* columnsContent.split(/,(?![^(]*\))/)
SplitColumns(c) ==
  SplitAt(c, {j \in 1..Len(c) : c[j] = "," /\ ~ClosesBeforeOpens(c, j)}, 1)

\* col.trim().split(/\s+/)[0]
FirstToken(col) ==
  LET t == trim(col)
      sp == {j \in 1..Len(t) : IsSpace(t[j])}
  IN  IF sp = {} THEN t ELSE SubSeq(t, 1, Min(sp) - 1)

\* the type of a column fragment: the second test overrides the first
ColumnType(col) ==
  LET fullDef == toUpperCase(col)
      t1 == IF includes(fullDef, W_INT) \/ includes(fullDef, <<"N","U","M","B","E","R">>)
              THEN "Number" ELSE "TEXT"
  IN  IF includes(fullDef, W_VARCHAR) \/ includes(fullDef, <<"C","H","A","R">>)
        THEN "Text" ELSE t1

ConstraintWords == {W_PRIMARY, W_FOREIGN, W_CONSTRAINT, W_KEY}

\* a filter that compares the name as typed with the upper-case key words
KeepColumnAsTyped(c) == c.name # <<>> /\ c.name \notin ConstraintWords

\* the filter of parsedCols
KeepColumn(c) == c.name # <<>> /\ toUpperCase(c.name) \notin ConstraintWords

parseSchema(text) ==
  LET at == {i \in 1..Len(text) : CreateMatchAt(text, i) # <<>>}
  IN  IF at = {} THEN null
      ELSE LET createMatch == CreateMatchAt(text, Min(at))
               columnsRaw == SplitColumns(createMatch[2])
               parsedCols == [n \in 1..Len(columnsRaw) |->
                                [name |-> FirstToken(columnsRaw[n]),
                                 type |-> ColumnType(columnsRaw[n])]]
           IN  [name |-> createMatch[1], columns |-> SelectSeq(parsedCols, KeepColumn)]

(***************************************************************************)
(* parseAllInsertRows                                                      *)
(***************************************************************************)
\* /VALUES\s*\(([\s\S]*?)\)/gi tried at index i of s: <<content, index after
\* the match>>, or <<>>. [\s\S]*? is lazy: the content ends before the FIRST ")".
ValuesMatchAt(s, i) ==
  IF ~MatchLit(s, i, W_VALUES) THEN <<>>
  ELSE LET p == SkipSpaces(s, i + Len(W_VALUES))
           closes == {q \in (p + 1)..Len(s) : s[q] = ")"}
       IN  IF p > Len(s) THEN <<>>
           ELSE IF s[p] # "(" \/ closes = {} THEN <<>>
           ELSE <<SubSeq(s, p + 1, Min(closes) - 1), Min(closes) + 1>>

\* val.trim().replace(/['"]/g, ''): EVERY quote character is removed
CleanCell(val) == SelectSeq(trim(val), LAMBDA c : ~IsQuote(c))

\* match[1].split(',').map(...)
RowOf(content) ==
  LET cells == SplitAt(content, {j \in 1..Len(content) : content[j] = ","}, 1)
  IN  [n \in 1..Len(cells) |-> CleanCell(cells[n])]

\* text.matchAll(...): the matches from index from on, left to right
RECURSIVE InsertRowsFrom(_, _)
InsertRowsFrom(s, from) ==
  LET at == {i \in from..Len(s) : ValuesMatchAt(s, i) # <<>>}
  IN  IF at = {} THEN <<>>
      ELSE LET m == ValuesMatchAt(s, Min(at))
           IN  <<RowOf(m[1])>> \o InsertRowsFrom(s, m[2])

parseAllInsertRows(text) == InsertRowsFrom(text, 1)

(***************************************************************************)
(* 3. analyzeQuestion                                                      *)
(***************************************************************************)
Q_count == <<"c","o","u","n","t">>

Q_rename == <<"r","e","n","a","m","e">>

Q_delete == <<"d","e","l","e","t","e">>

Q_show == <<"s","h","o","w">>

Q_where == <<"w","h","e","r","e">>

Q_create == <<"c","r","e","a","t","e">>

Q_new_table == <<"n","e","w"," ","t","a","b","l","e">>

Q_make_table == <<"m","a","k","e"," ","t","a","b","l","e">>

\* q.match(/a|b|.../): one of the alternatives occurs in q
matchAny(q, alts) == \E lit \in alts : includes(q, lit)

AggregateWords ==
  {<<"m","i","n","i","m","u","m">>, <<"m","a","x","i","m","u","m">>, <<"m","a","x">>,
   <<"m","i","n">>, <<"a","v","g">>, <<"a","v","e","r","a","g","e">>,
   Q_count, <<"s","u","m">>}

RenameWords == {Q_rename, <<"a","s">>, <<"t","i","t","l","e">>}

DeleteWords == {Q_delete, <<"r","e","m","o","v","e">>, <<"c","l","e","a","r">>}

SelectWords ==
  {<<"l","i","s","t">>, Q_show, <<"f","i","n","d">>, <<"s","e","l","e","c","t">>,
   <<"w","h","o">>}

FilterWords ==
  {Q_where, <<"s","c","o","r","i","n","g">>, <<"m","o","r","e"," ","t","h","a","n">>,
   <<"g","r","e","a","t","e","r">>, <<"l","e","s","s">>, <<"w","h","o","s","e">>}

CreateWords == {Q_create, Q_new_table, Q_make_table}

Step(id, text, regex) == [id |-> id, text |-> text, regex |-> regex]

AggregateSteps ==
  <<Step(1, "Use Aggregate Function: SELECT MAX(), MIN(), etc.", "(MAX|MIN|AVG|COUNT|SUM)"),
    Step(2, "Specify Source: FROM [Table]", "FROM")>>

RenameStep == Step(3, "Rename columns using AS 'New Name'", "AS")

DeleteSteps ==
  <<Step(1, "Start with DELETE FROM [Table]", "DELETE\\s+FROM"),
    Step(2, "Filter using WHERE [Condition]", "WHERE")>>

SelectSteps ==
  <<Step(1, "Start with SELECT [Columns] or *", "SELECT"),
    Step(2, "Identify Source: FROM [Table]", "FROM")>>

FilterStep == Step(3, "Filter results using WHERE [Condition]", "WHERE")

CreateTableSteps ==
  <<Step(1, "Use CREATE TABLE [TableName]", "CREATE\\s+TABLE"),
    Step(2, "Pro-tip: Use 'IF NOT EXISTS' to avoid errors", "IF\\s+NOT\\s+EXISTS"),
    Step(3, "Define columns inside ( )", "\\(.*\\)")>>

\* a chain of independent tests: the steps of every matching category
CategoryStepsAll(q) ==
  (IF matchAny(q, AggregateWords)
     THEN AggregateSteps \o (IF matchAny(q, RenameWords) THEN <<RenameStep>> ELSE <<>>)
     ELSE <<>>)
  \o (IF matchAny(q, DeleteWords) THEN DeleteSteps ELSE <<>>)
  \o (IF matchAny(q, SelectWords)
        THEN SelectSteps \o (IF matchAny(q, FilterWords) THEN <<FilterStep>> ELSE <<>>)
        ELSE <<>>)

\* the if / else if chain of lines 81-100
CategorySteps(q) ==
  IF matchAny(q, AggregateWords)
    THEN AggregateSteps \o (IF matchAny(q, RenameWords) THEN <<RenameStep>> ELSE <<>>)
  ELSE IF matchAny(q, DeleteWords) THEN DeleteSteps
  ELSE IF matchAny(q, SelectWords)
    THEN SelectSteps \o (IF matchAny(q, FilterWords) THEN <<FilterStep>> ELSE <<>>)
  ELSE <<>>

\* a create-table test that only applies when no other category matched
RoadmapStepsNoOverride(question) ==
  LET q == toLowerCase(question)
  IN  IF CategorySteps(q) = <<>> /\ matchAny(q, CreateWords)
        THEN CreateTableSteps ELSE CategorySteps(q)

\* the steps analyzeQuestion hands to setRoadmap: lines 78-108
RoadmapSteps(question) ==
  LET q == toLowerCase(question)
  IN  IF matchAny(q, CreateWords) THEN CreateTableSteps ELSE CategorySteps(q)

(***************************************************************************)
(* The execution collaborator (axios.post to /api/execute/)                *)
(***************************************************************************)
\* how a request ends: a body with status success (with or without rows, with
\* or without a message), a body with status error, or a rejected promise
\* (with or without a message in err.response.data)
SelectOutcomes == {"rows", "norows", "error", "reject", "rejectmsg"}

ExecOutcomes == {"success", "successnomsg", "error", "reject", "rejectmsg"}

Rejects == {"reject", "rejectmsg"}

\* the columns and the rows the collaborator holds for a table: they name the table
BackendColumns(tn) == <<toLowerCase(tn) \o <<"_","i","d">>>>

BackendRows(tn) == <<(<<toLowerCase(tn), <<"1">>>>)>>

\* res.data of SELECT * FROM tn
SelectBody(tn, o) ==
  IF o = "rows"
    THEN [status |-> "success", columns |-> BackendColumns(tn), data |-> BackendRows(tn)]
  ELSE IF o = "norows"
    THEN [status |-> "success", columns |-> BackendColumns(tn), data |-> <<>>]
  ELSE [status |-> "error", message |-> "server error"]

\* response.data of the submitted statement
ExecBody(o) ==
  IF o = "success" THEN [status |-> "success", message |-> "server message"]
  ELSE IF o = "successnomsg" THEN [status |-> "success"]
  ELSE [status |-> "error", message |-> "server error"]

\* err.response?.data?.message || "Execution Failed"
RejectMessage(o) == IF o = "rejectmsg" THEN "server error" ELSE "Execution Failed"

\* an object literal whose properties come from a body: an absent property is undefined
Pick(body, fields) == [f \in (fields \cap DOMAIN body) |-> body[f]]

(***************************************************************************)
(* The drafts the learner types and the suggestions of lines 231-233       *)
(***************************************************************************)
STAR == <<"*">>

D_unknown == Cat(<<W_SELECT, SP, STAR, SP, W_FROM, SP, <<"f","o","o">>>>)

D_inherited ==
  Cat(<<W_SELECT, SP, STAR, SP, W_FROM, SP, <<"c","o","n","s","t","r","u","c","t","o","r">>>>)

D_noref == Cat(<<W_VALUES, SP, <<"(", "7", ")">>>>)

D_create ==
  Cat(<<W_CREATE, SP, W_TABLE, SP, W_courses, SP, <<"(", "a">>, SP, W_INT, <<")">>>>)

D_drop == Cat(<<W_DROP, SP, W_TABLE, SP, W_student>>)

D_delete == Cat(<<W_DELETE, SP, W_FROM, SP, W_student>>)

Drafts == {D_unknown, D_inherited, D_noref, D_create, D_drop, D_delete}

S_names ==
  Cat(<<W_SELECT, SP, W_emp_id, <<",">>, SP, W_emp_name, SP, W_FROM, SP, W_student,
        <<";">>>>)

S_cs ==
  Cat(<<W_SELECT, SP, STAR, SP, W_FROM, SP, W_student, SP, <<"W","H","E","R","E">>, SP,
        W_departmenit_id,
        <<" ", "=", " ", "'", "C", "S", "'", ";">>>>)

S_count ==
  Cat(<<W_SELECT, SP, W_departmenit_id, <<",">>, SP, <<"C","O","U","N","T">>,
        <<"(", "*", ")">>, SP, W_FROM, SP, W_student, SP, <<"G","R","O","U","P">>, SP,
        <<"B","Y">>, SP, W_departmenit_id, <<";">>>>)

Suggestions == {S_names, S_cs, S_count}

Q_count_students == Cat(<<Q_count, SP, W_student>>)

Questions == {<<>>, Q_count_students}

(***************************************************************************)
(* Bounds                                                                  *)
(***************************************************************************)
\* the calls of handleEditorChange and of runQuery in a session
MaxEvents == 2

(***************************************************************************)
(* State                                                                   *)
(***************************************************************************)
VARIABLES
  query, results, sources, existingData, multiRowPreview, activeSchema,
  successMsg, error, studentQuestion, roadmap,   \* the state slots of App
  events,     \* the number of calls of handleEditorChange and runQuery so far
  edits,      \* the calls of handleEditorChange, in their order: awaiting the fetch, done
  runs,       \* the calls of runQuery, in their order: active, done
  requests,   \* the requests of the runs that are in flight
  lastOp,     \* the step of handleEditorChange, runQuery or Clear All taken last
  arg, ret    \* the argument and the result of a function applied on its own

appState ==
  <<query, results, sources, existingData, multiRowPreview, activeSchema,
    successMsg, error, studentQuestion, roadmap>>

vars == <<appState, events, edits, runs, requests, lastOp, arg, ret>>

emptyResults == [columns |-> <<>>, data |-> <<>>]

Init ==
  /\ query = <<>>
  /\ results = emptyResults
  /\ sources = <<>>
  /\ existingData = <<>>
  /\ multiRowPreview = <<>>
  /\ activeSchema = null
  /\ successMsg = ""
  /\ error = ""
  /\ studentQuestion = <<>>
  /\ roadmap = <<>>
  /\ events = 0
  /\ edits = <<>>
  /\ runs = <<>>
  /\ requests = {}
  /\ lastOp = [op |-> "init"]
  /\ arg = <<>>
  /\ ret = <<>>

\* one more call of a handler that awaits the collaborator
Event ==
  /\ events < MaxEvents
  /\ events' = events + 1

\* Clear All or the DROP branch of a run has written the preview state while a
\* call of handleEditorChange awaits
Disturbed(E) ==
  [k \in DOMAIN E |-> IF E[k].pc = "await" THEN [E[k] EXCEPT !.alone = FALSE] ELSE E[k]]

\* a step of another call of handleEditorChange has run while a call awaits
Interleaved(E) ==
  [k \in DOMAIN E |->
     IF E[k].pc = "await" THEN [E[k] EXCEPT !.alone = FALSE, !.noEdit = FALSE] ELSE E[k]]

(***************************************************************************)
(* 4. handleEditorChange                                                   *)
(***************************************************************************)
\* lines 123-125: SCHEMA_REGISTRY[tableName] is truthy for the three entries and
\* for an inherited member; the member is no array, and the record keeps it
\* under columnsObject (the field columns holds lists only)
RegistrySchema(current, tableName) ==
  IF tableName \in DOMAIN SCHEMA_REGISTRY
    THEN [name |-> tableName, columns |-> SCHEMA_REGISTRY[tableName]]
  ELSE IF tableName \in InheritedNames
    THEN [name |-> tableName, columnsObject |-> tableName]
  ELSE current

\* a parsed schema that only fills an empty preview
SchemaAfterParseKeep(current, detectedSchema) ==
  IF detectedSchema # null /\ current = null THEN detectedSchema ELSE current

\* a handler that takes a draft without a create-table shape as a reset
SchemaAfterParseOrNull(current, detectedSchema) ==
  IF detectedSchema # null THEN detectedSchema ELSE null

\* lines 138-139: if (detectedSchema) setActiveSchema(detectedSchema)
SchemaAfterParse(current, detectedSchema) ==
  IF detectedSchema # null THEN detectedSchema ELSE current

\* lines 113-129: up to the await of the fetch of the ghost rows; without a
\* table match the handler runs to its end (lines 138-141)
handleEditorChange(val) ==
  LET tableMatch == matchTable(val, EditorPatterns)
  IN  /\ Event
      /\ query' = val
      /\ IF tableMatch # NoMatch
           THEN LET tableName == toLowerCase(tableMatch)
                IN  /\ activeSchema' = RegistrySchema(activeSchema, tableName)
                    /\ edits' = Append(Interleaved(edits),
                                   [pc |-> "await", val |-> val, tableName |-> tableName,
                                    prev |-> activeSchema, alone |-> TRUE,
                                    noEdit |-> TRUE])
                    /\ lastOp' = [op |-> "edit"]
                    /\ UNCHANGED multiRowPreview
           ELSE /\ activeSchema' = SchemaAfterParse(activeSchema, parseSchema(val))
                /\ multiRowPreview' = parseAllInsertRows(val)
                /\ edits' = Append(Interleaved(edits), [pc |-> "done"])
                /\ lastOp' = [op |-> "editDone", val |-> val, prev |-> activeSchema,
                              alone |-> TRUE, noEdit |-> TRUE, outcome |-> "nofetch"]
      /\ UNCHANGED <<results, sources, existingData, successMsg, error, studentQuestion,
                     roadmap, runs, requests, arg, ret>>

\* lines 129-141: the fetch of call k ends with outcome o and the handler resumes
handleEditorChangeResume(k, o) ==
  /\ k \in DOMAIN edits
  /\ edits[k].pc = "await"
  /\ LET val == edits[k].val
         body == SelectBody(edits[k].tableName, o)
     IN  /\ existingData' =
              IF o \notin Rejects /\ body.status = "success" THEN body.data ELSE existingData
         /\ activeSchema' = SchemaAfterParse(activeSchema, parseSchema(val))
         /\ multiRowPreview' = parseAllInsertRows(val)
         /\ lastOp' = [op |-> "editDone", val |-> val, prev |-> edits[k].prev,
                       alone |-> edits[k].alone, noEdit |-> edits[k].noEdit, outcome |-> o]
  /\ edits' = [Interleaved(edits) EXCEPT ![k] = [pc |-> "done"]]
  /\ UNCHANGED <<query, results, sources, successMsg, error, studentQuestion, roadmap,
                 events, runs, requests, arg, ret>>

(***************************************************************************)
(* runQuery and applySuggestion                                            *)
(***************************************************************************)
\* line 152: the statement mutates a detected table
IsMutating(tableName, upperQ) ==
  /\ tableName # NoMatch
  /\ \/ includes(upperQ, <<"A","L","T","E","R">>)
     \/ includes(upperQ, W_DELETE)
     \/ includes(upperQ, W_DROP)
     \/ includes(upperQ, W_UPDATE)

\* a run that does not await the snapshot before it sends the statement
FirstRequestsNoAwait(tableName, upperQ) ==
  IF IsMutating(tableName, upperQ) THEN {"snapshot", "execute"} ELSE {"execute"}

\* lines 152-157: the request a run sends first
FirstRequests(tableName, upperQ) ==
  IF IsMutating(tableName, upperQ) THEN {"snapshot"} ELSE {"execute"}

\* a DROP branch that leaves the structural preview in place
AfterDropKeep(schema, rows) == <<schema, rows>>

\* lines 164-168: activeSchema and existingData after a successful DROP
AfterDrop(schema, rows) == <<null, <<>>>>

Sent(r, kinds) == {[run |-> r, kind |-> k] : k \in kinds}

SendLog(kinds) ==
  (IF "snapshot" \in kinds THEN <<(<<"send", "snapshot">>)>> ELSE <<>>)
    \o (IF "execute" \in kinds THEN <<(<<"send", "execute">>)>> ELSE <<>>)
    \o (IF "refresh" \in kinds THEN <<(<<"send", "refresh">>)>> ELSE <<>>)

\* lines 144-157: runQuery up to its first await; activeQuery = overrideQuery || query
runQueryStart(overrideQuery) ==
  LET r == Len(runs) + 1
      activeQuery == IF overrideQuery # <<>> THEN overrideQuery ELSE query
      upperQ == toUpperCase(activeQuery)
      tableName == matchTable(activeQuery, RunPatterns)
      first == FirstRequests(tableName, upperQ)
  IN  /\ Event
      /\ error' = ""
      /\ successMsg' = ""
      /\ runs' = Append(runs, [pc |-> "active", activeQuery |-> activeQuery,
                                tableName |-> tableName, log |-> SendLog(first)])
      /\ requests' = requests \cup Sent(r, first)
      /\ lastOp' = [op |-> "runStart"]
      /\ UNCHANGED edits

\* the button RUN & ANALYZE: runQuery()
runQuery ==
  /\ runQueryStart(<<>>)
  /\ UNCHANGED <<query, results, sources, existingData, multiRowPreview, activeSchema,
                 studentQuestion, roadmap, arg, ret>>

\* lines 71-74, offered while the draft contains 'student' (line 226)
applySuggestion(sql) ==
  /\ includes(toLowerCase(query), W_student)
  /\ query' = sql
  /\ runQueryStart(sql)
  /\ UNCHANGED <<results, sources, existingData, multiRowPreview, activeSchema,
                 studentQuestion, roadmap, arg, ret>>

\* the call r ends (the try block is left)
Finish(r, kind, o) ==
  /\ runs' = [runs EXCEPT ![r] = [pc |-> "done"]]
  /\ requests' = requests \ {[run |-> r, kind |-> kind]}

\* the call r goes on with the request next
Continue(r, kind, next) ==
  /\ runs' = [runs EXCEPT ![r].log = @ \o <<(<<"recv", kind>>)>> \o SendLog({next})]
  /\ requests' = (requests \ {[run |-> r, kind |-> kind]}) \cup Sent(r, {next})

\* lines 153-157: the snapshot request of call r ends with outcome o
runQuerySnapshot(r, o) ==
  /\ r \in DOMAIN runs
  /\ runs[r].pc = "active"
  /\ [run |-> r, kind |-> "snapshot"] \in requests
  /\ IF o \in Rejects
       THEN /\ error' = RejectMessage(o)
            /\ Finish(r, "snapshot", o)
            /\ UNCHANGED sources
       ELSE /\ sources' = <<[name |-> runs[r].tableName]
                              @@ Pick(SelectBody(runs[r].tableName, o), {"columns", "data"})>>
            /\ Continue(r, "snapshot", "execute")
            /\ UNCHANGED error
  /\ lastOp' = [op |-> "runSnapshot", outcome |-> o]
  /\ UNCHANGED <<query, results, existingData, multiRowPreview, activeSchema, successMsg,
                 studentQuestion, roadmap, events, edits, arg, ret>>

\* lines 157-176: the request of the statement of call r ends with outcome o
runQueryExecute(r, o) ==
  /\ r \in DOMAIN runs
  /\ runs[r].pc = "active"
  /\ [run |-> r, kind |-> "execute"] \in requests
  /\ LET upperQ == toUpperCase(runs[r].activeQuery)
         body == ExecBody(o)
         isDrop == includes(upperQ, W_DROP)
     IN  IF o \in Rejects
           THEN /\ error' = RejectMessage(o)
                /\ Finish(r, "execute", o)
                /\ UNCHANGED <<successMsg, activeSchema, results, sources, existingData,
                               edits>>
         ELSE IF body.status = "success"
           THEN /\ successMsg' = IF "message" \in DOMAIN body
                                   THEN body.message ELSE "Command executed successfully!"
                /\ IF isDrop
                     THEN /\ activeSchema' = AfterDrop(activeSchema, existingData)[1]
                          /\ existingData' = AfterDrop(activeSchema, existingData)[2]
                          /\ results' = emptyResults
                          /\ sources' = <<>>
                          /\ edits' = Disturbed(edits)
                          /\ Finish(r, "execute", o)
                     ELSE /\ IF runs[r].tableName # NoMatch
                               THEN Continue(r, "execute", "refresh")
                               ELSE Finish(r, "execute", o)
                          /\ UNCHANGED <<activeSchema, results, sources, existingData,
                                         edits>>
                /\ UNCHANGED error
         ELSE /\ Finish(r, "execute", o)
              /\ UNCHANGED <<error, successMsg, activeSchema, results, sources,
                             existingData, edits>>
  /\ lastOp' = [op |-> "runExecute", outcome |-> o,
                drop |-> includes(toUpperCase(runs[r].activeQuery), W_DROP)]
  /\ UNCHANGED <<query, multiRowPreview, studentQuestion, roadmap, events, arg, ret>>

\* lines 172-175: the refresh request of call r ends with outcome o
runQueryRefresh(r, o) ==
  /\ r \in DOMAIN runs
  /\ runs[r].pc = "active"
  /\ [run |-> r, kind |-> "refresh"] \in requests
  /\ IF o \in Rejects
       THEN /\ error' = RejectMessage(o)
            /\ UNCHANGED results
       ELSE /\ results' = Pick(SelectBody(runs[r].tableName, o), {"columns", "data"})
            /\ UNCHANGED error
  /\ Finish(r, "refresh", o)
  /\ lastOp' = [op |-> "runRefresh", outcome |-> o]
  /\ UNCHANGED <<query, sources, existingData, multiRowPreview, activeSchema, successMsg,
                 studentQuestion, roadmap, events, edits, arg, ret>>

(***************************************************************************)
(* The question, ANALYZE and Clear All                                     *)
(***************************************************************************)
\* a textarea that analyses the question on every change of its text
setStudentQuestionAnalyzed(text) ==
  /\ text # studentQuestion
  /\ studentQuestion' = text
  /\ roadmap' = RoadmapSteps(text)
  /\ UNCHANGED <<query, results, sources, existingData, multiRowPreview, activeSchema,
                 successMsg, error, events, edits, runs, requests, lastOp, arg, ret>>

\* line 192: the textarea of the question
setStudentQuestion(text) ==
  /\ text # studentQuestion
  /\ studentQuestion' = text
  /\ UNCHANGED <<query, results, sources, existingData, multiRowPreview, activeSchema,
                 successMsg, error, roadmap, events, edits, runs, requests, lastOp, arg, ret>>

\* lines 77-110
analyzeQuestion ==
  /\ roadmap' = RoadmapSteps(studentQuestion)
  /\ UNCHANGED <<query, results, sources, existingData, multiRowPreview, activeSchema,
                 successMsg, error, studentQuestion, events, edits, runs, requests, lastOp,
                 arg, ret>>

\* line 222: the seven setters of the button Clear All
ClearAll ==
  /\ query' = <<>>
  /\ results' = emptyResults
  /\ sources' = <<>>
  /\ activeSchema' = null
  /\ roadmap' = <<>>
  /\ studentQuestion' = <<>>
  /\ successMsg' = ""
  /\ edits' = Disturbed(edits)
  /\ lastOp' = [op |-> "clear"]
  /\ UNCHANGED <<existingData, multiRowPreview, error, events, runs, requests, arg, ret>>

Next ==
  \/ \E val \in Drafts : handleEditorChange(val)
  \/ \E k \in 1..MaxEvents, o \in SelectOutcomes : handleEditorChangeResume(k, o)
  \/ runQuery
  \/ \E sql \in Suggestions : applySuggestion(sql)
  \/ \E r \in 1..MaxEvents, o \in SelectOutcomes : runQuerySnapshot(r, o)
  \/ \E r \in 1..MaxEvents, o \in ExecOutcomes : runQueryExecute(r, o)
  \/ \E r \in 1..MaxEvents, o \in SelectOutcomes : runQueryRefresh(r, o)
  \/ \E text \in Questions : setStudentQuestion(text)
  \/ analyzeQuestion
  \/ ClearAll

Spec == Init /\ [][Next]_vars

(***************************************************************************)
(* The structural preview of the render (lines 244-255)                    *)
(***************************************************************************)
\* line 251: activeSchema.columns.map((_, cIdx) => row[cIdx] || ''): one cell
\* for each column, '' where the row has no cell or an empty one
DraftCells(columns, row) ==
  [cIdx \in 1..Len(columns) |-> IF cIdx <= Len(row) THEN row[cIdx] ELSE <<>>]

\* lines 249-252: the rows of tbody, existingData.map (line 250, row.map: one
\* cell for each cell of the row) and then multiRowPreview.map (line 251)
PreviewBody ==
  [rIdx \in 1..Len(existingData) |-> [key |-> "ex", cells |-> existingData[rIdx]]]
    \o [rIdx \in 1..Len(multiRowPreview) |->
          [key |-> "new", cells |-> DraftCells(activeSchema.columns, multiRowPreview[rIdx])]]

(***************************************************************************)
(* The roadmap of the render (lines 197-209)                               *)
(***************************************************************************)
\* the patterns of the steps (lines 83-105), all with flag i and without flag
\* g: the alternatives of a pattern, each a sequence of literals separated by \s+
StepPatterns ==
  [regex \in {"(MAX|MIN|AVG|COUNT|SUM)", "FROM", "AS", "DELETE\\s+FROM", "WHERE", "SELECT",
              "CREATE\\s+TABLE", "IF\\s+NOT\\s+EXISTS"} |->
     IF regex = "(MAX|MIN|AVG|COUNT|SUM)"
       THEN {<<(<<"M","A","X">>)>>, <<(<<"M","I","N">>)>>, <<(<<"A","V","G">>)>>,
             <<(<<"C","O","U","N","T">>)>>, <<(<<"S","U","M">>)>>}
     ELSE IF regex = "FROM" THEN {<<W_FROM>>}
     ELSE IF regex = "AS" THEN {<<(<<"A","S">>)>>}
     ELSE IF regex = "DELETE\\s+FROM" THEN {<<W_DELETE, W_FROM>>}
     ELSE IF regex = "WHERE" THEN {<<(<<"W","H","E","R","E">>)>>}
     ELSE IF regex = "SELECT" THEN {<<W_SELECT>>}
     ELSE IF regex = "CREATE\\s+TABLE" THEN {<<W_CREATE, W_TABLE>>}
     ELSE {<<(<<"I","F">>), (<<"N","O","T">>), (<<"E","X","I","S","T","S">>)>>}]

\* step.regex.test(query) of lines 201-205; /\(.*\)/ is an opening and a later
\* closing parenthesis with no line break between them
test(regex, text) ==
  IF regex = "\\(.*\\)"
    THEN \E i, j \in 1..Len(text) :
           /\ i < j
           /\ text[i] = "("
           /\ text[j] = ")"
           /\ \A k \in (i + 1)..(j - 1) : text[k] # "\n"
    ELSE \E alt \in StepPatterns[regex], i \in 1..Len(text) :
           AltEnd(toUpperCase(text), i, alt) # 0

\* lines 200-206: the completion mark of each step of the roadmap
RoadmapMarks == [n \in DOMAIN roadmap |-> test(roadmap[n].regex, query)]

(***************************************************************************)
(* The parsing functions applied on their own: arg is the structure of a   *)
(* text, ret the result of the function on the text written from it.       *)
(***************************************************************************)
\* the clauses of a statement
MaxClauses == 2

\* the columns of a table definition
MaxColumns == 2

\* the VALUES groups of a statement and the cells of a group
MaxGroups == 2

MaxCells == 2

\* the words of a question
MaxWords == 2

SeqsUpTo(S, n) == UNION {[1..m -> S] : m \in 1..n}

\* the texts of ts with sep between them
RECURSIVE Join(_, _)
Join(ts, sep) ==
  IF ts = <<>> THEN <<>>
  ELSE IF Len(ts) = 1 THEN ts[1]
  ELSE ts[1] \o sep \o Join(Tail(ts), sep)

InitApp ==
  /\ query = <<>>
  /\ results = emptyResults
  /\ sources = <<>>
  /\ existingData = <<>>
  /\ multiRowPreview = <<>>
  /\ activeSchema = null
  /\ successMsg = ""
  /\ error = ""
  /\ roadmap = <<>>
  /\ events = 0
  /\ edits = <<>>
  /\ runs = <<>>
  /\ requests = {}
  /\ lastOp = [op |-> "init"]

\* ---- table detection -----------------------------------------------------
ClauseWords ==
  [INSERT |-> Cat(<<W_INSERT, SP, W_INTO>>), FROM |-> W_FROM, UPDATE |-> W_UPDATE,
   TABLE |-> W_TABLE, DELETE |-> Cat(<<W_DELETE, SP, W_FROM>>)]

ClauseNames == {<<"a">>, <<"b">>}

Clauses == [kw : DOMAIN ClauseWords, name : ClauseNames]

ClauseText(c) == ClauseWords[c.kw] \o SP \o c.name

StatementText(cs) == Join([n \in 1..Len(cs) |-> ClauseText(cs[n])], SP)

InitTableMatch ==
  /\ InitApp
  /\ studentQuestion = <<>>
  /\ arg \in SeqsUpTo(Clauses, MaxClauses)
  /\ ret = <<>>

\* line 118: val.match(...) on the text of arg
ApplyTableMatch ==
  /\ ret = <<>>
  /\ ret' = <<matchTable(StatementText(arg), EditorPatterns)>>
  /\ UNCHANGED <<appState, events, edits, runs, requests, lastOp, arg>>

SpecTableMatch == InitTableMatch /\ [][ApplyTableMatch]_vars

\* ---- parseSchema ---------------------------------------------------------
ColumnNames == {<<"a">>, <<"b">>, <<"c","h","a","r","g","e">>}

\* the declared types: INT, VARCHAR(10), DECIMAL(10,2)
TypeTexts ==
  [INT |-> W_INT,
   VARCHAR |-> W_VARCHAR \o <<"(", "1", "0", ")">>,
   DECIMAL |-> <<"D","E","C","I","M","A","L">> \o <<"(", "1", "0", ",", "2", ")">>]

ColumnDecls == [name : ColumnNames, type : DOMAIN TypeTexts]

ColumnText(c) == c.name \o SP \o TypeTexts[c.type]

\* a second statement after the table definition: ; INSERT INTO t VALUES (1, 2)
Trailer ==
  Cat(<<(<<";", " ">>), W_INSERT, SP, W_INTO, SP, <<"t">>, SP, W_VALUES, SP,
        <<"(", "1", ",", " ", "2", ")">>>>)

CreateText(a) ==
  Cat(<<W_CREATE, SP, W_TABLE, SP, a.table, SP, <<"(">>,
        Join([n \in 1..Len(a.cols) |-> ColumnText(a.cols[n])], <<",", " ">>), <<")">>,
        IF a.trailer THEN Trailer ELSE <<>>>>)

InitSchema ==
  /\ InitApp
  /\ studentQuestion = <<>>
  /\ arg \in [table : {<<"t">>}, cols : SeqsUpTo(ColumnDecls, MaxColumns), trailer : BOOLEAN]
  /\ ret = <<>>

ApplyParseSchema ==
  /\ ret = <<>>
  /\ ret' = <<parseSchema(CreateText(arg))>>
  /\ UNCHANGED <<appState, events, edits, runs, requests, lastOp, arg>>

SpecSchema == InitSchema /\ [][ApplyParseSchema]_vars

\* the table definition with the clause the roadmap recommends (line 104):
\* CREATE TABLE IF NOT EXISTS t (c1 T1, ..., cn Tn)
CreateIfNotExistsText(a) ==
  Cat(<<W_CREATE, SP, W_TABLE, SP, <<"I","F">>, SP, <<"N","O","T">>, SP,
        <<"E","X","I","S","T","S">>, SP, a.table, SP, <<"(">>,
        Join([n \in 1..Len(a.cols) |-> ColumnText(a.cols[n])], <<",", " ">>), <<")">>,
        IF a.trailer THEN Trailer ELSE <<>>>>)

\* what the program computes from such a draft: the marks of the CreateTable
\* steps (lines 103-105, 201-205), the table names of lines 118-120 and
\* 149-150, and parseSchema (line 138)
ApplyCreateDraft ==
  /\ ret = <<>>
  /\ LET text == CreateIfNotExistsText(arg)
     IN  ret' = <<[marks |-> [n \in 1..3 |-> test(CreateTableSteps[n].regex, text)],
                   editor |-> toLowerCase(matchTable(text, EditorPatterns)),
                   run |-> matchTable(text, RunPatterns),
                   schema |-> parseSchema(text)]>>
  /\ UNCHANGED <<appState, events, edits, runs, requests, lastOp, arg>>

SpecCreateDraft == InitSchema /\ [][ApplyCreateDraft]_vars

\* ---- parseSchema on table constraints ------------------------------------
\* the fragments of a column list
MaxFragments == 3

\* column definitions and table constraints as typed, with their leading token:
\* a INT, b VARCHAR(10), PRIMARY KEY (a), primary key (a, b),
\* Foreign Key (a) REFERENCES u(a), CONSTRAINT pk UNIQUE (a), key k (a)
Fragments ==
  { [col |-> TRUE, lead |-> <<"a">>, rest |-> SP \o W_INT],
    [col |-> TRUE, lead |-> <<"b">>, rest |-> SP \o TypeTexts.VARCHAR],
    [col |-> FALSE, lead |-> W_PRIMARY, rest |-> SP \o W_KEY \o <<" ", "(", "a", ")">>],
    [col |-> FALSE, lead |-> toLowerCase(W_PRIMARY),
     rest |-> SP \o toLowerCase(W_KEY) \o <<" ", "(", "a", ",", " ", "b", ")">>],
    [col |-> FALSE, lead |-> <<"F">> \o Tail(toLowerCase(W_FOREIGN)),
     rest |-> SP \o W_KEY \o <<" ", "(", "a", ")", " ", "R", "E", "F", "E", "R", "E", "N",
                                "C", "E", "S", " ", "u", "(", "a", ")">>],
    [col |-> FALSE, lead |-> W_CONSTRAINT,
     rest |-> <<" ", "p", "k", " ", "U", "N", "I", "Q", "U", "E", " ", "(", "a", ")">>],
    [col |-> FALSE, lead |-> toLowerCase(W_KEY), rest |-> <<" ", "k", " ", "(", "a", ")">>] }

FragmentsText(fs) ==
  Cat(<<W_CREATE, SP, W_TABLE, SP, <<"t">>, SP, <<"(">>,
        Join([n \in 1..Len(fs) |-> fs[n].lead \o fs[n].rest], <<",", " ">>), <<")">>>>)

InitConstraints ==
  /\ InitApp
  /\ studentQuestion = <<>>
  /\ arg \in SeqsUpTo(Fragments, MaxFragments)
  /\ ret = <<>>

ApplyParseConstraints ==
  /\ ret = <<>>
  /\ ret' = <<parseSchema(FragmentsText(arg))>>
  /\ UNCHANGED <<appState, events, edits, runs, requests, lastOp, arg>>

SpecConstraints == InitConstraints /\ [][ApplyParseConstraints]_vars

\* ---- parseAllInsertRows --------------------------------------------------
\* the cells as typed: 1, 'x', "q", 'it''s', and a 7 between spaces
CellTexts ==
  { <<"1">>, <<"'", "x", "'">>, <<"\"", "q", "\"">>,
    <<"'", "i", "t", "'", "'", "s", "'">>, <<" ", "7", " ">> }

Groups == SeqsUpTo(CellTexts, MaxCells)

GroupText(g, closed) ==
  Cat(<<W_VALUES, SP, <<"(">>, Join(g, <<",">>), IF closed THEN <<")">> ELSE <<>>>>)

\* INSERT INTO t VALUES (...) VALUES (...: the last group may lack its ")"
InsertText(a) ==
  Cat(<<W_INSERT, SP, W_INTO, SP, <<"t">>, SP>>)
    \o Join([n \in 1..Len(a.groups) |->
               GroupText(a.groups[n], n < Len(a.groups) \/ a.closed)], SP)

InitRows ==
  /\ InitApp
  /\ studentQuestion = <<>>
  /\ arg \in [groups : SeqsUpTo(Groups, MaxGroups), closed : BOOLEAN]
  /\ ret = <<>>

ApplyParseAllInsertRows ==
  /\ ret = <<>>
  /\ ret' = <<parseAllInsertRows(InsertText(arg))>>
  /\ UNCHANGED <<appState, events, edits, runs, requests, lastOp, arg>>

SpecRows == InitRows /\ [][ApplyParseAllInsertRows]_vars

\* ---- analyzeQuestion -----------------------------------------------------
W_Create_cap == <<"C","r","e","a","t","e">>

QuestionWords ==
  {Q_create, W_Create_cap, Q_new_table, Q_make_table, Q_count, Q_delete, Q_show, Q_where,
   Q_rename, <<"s","t","u","d","e","n","t","s">>}

\* the question typed in the textarea: the words of arg with a space between them
InitRoadmap ==
  /\ InitApp
  /\ arg \in SeqsUpTo(QuestionWords, MaxWords)
  /\ studentQuestion = Join(arg, SP)
  /\ ret = <<>>

SpecRoadmap == InitRoadmap /\ [][analyzeQuestion]_vars

\* lines 77-109 applied once: ret records the steps handed to setRoadmap
ApplyAnalyzeQuestion ==
  /\ ret = <<>>
  /\ ret' = <<RoadmapSteps(studentQuestion)>>
  /\ roadmap' = RoadmapSteps(studentQuestion)
  /\ UNCHANGED <<query, results, sources, existingData, multiRowPreview, activeSchema,
                 successMsg, error, studentQuestion, events, edits, runs, requests, lastOp,
                 arg>>

SpecAnalyze == InitRoadmap /\ [][ApplyAnalyzeQuestion]_vars

(***************************************************************************)
(* Properties                                                              *)
(***************************************************************************)
\* the table name handleEditorChange detects in a draft (lines 118-120)
DetectedTable(val) == toLowerCase(matchTable(val, EditorPatterns))

\* the schema a draft edit resolves, by priority: parsed, registry, previous
ResolvedSchema(val, prev) ==
  IF parseSchema(val) # null THEN parseSchema(val)
  ELSE IF DetectedTable(val) \in RegistryNames
    THEN [name |-> DetectedTable(val), columns |-> SCHEMA_REGISTRY[DetectedTable(val)]]
  ELSE prev

IsDropDraft(val) == includes(toUpperCase(val), W_DROP)

\* C2 as stated, for the schema and the ghost rows: after a draft edit (handled
\* with no other write of the preview in between) with no detectable table reference,
\* or whose draft is a drop-table statement, activeSchema and existingData are
\* cleared, so that no structure of an earlier draft stays visible.
C2_ClearedByEdit ==
  (/\ lastOp.op = "editDone"
   /\ lastOp.alone
   /\ \/ matchTable(lastOp.val, EditorPatterns) = NoMatch
      \/ IsDropDraft(lastOp.val))
    => /\ activeSchema = null
       /\ existingData = <<>>

\* C2 amended: the previous schema and the ghost rows are cleared when a drop
\* statement has been RUN successfully (with results and sources); a draft edit
\* with no detectable table reference keeps activeSchema and makes
\* multiRowPreview the tuples of the draft.
C2_ClearedByDropRun ==
  /\ (lastOp.op = "runExecute" /\ lastOp.drop /\ lastOp.outcome \in {"success", "successnomsg"})
       => /\ activeSchema = null
          /\ existingData = <<>>
          /\ results = emptyResults
          /\ sources = <<>>
  /\ (lastOp.op = "editDone" /\ matchTable(lastOp.val, EditorPatterns) = NoMatch)
       => /\ activeSchema = lastOp.prev
          /\ multiRowPreview = parseAllInsertRows(lastOp.val)

\* C2 witness: the drop statement typed in the editor has been run with
\* success, after its snapshot was taken, and the preview is gone.
C2_Witness ==
  /\ lastOp.op = "runExecute"
  /\ lastOp.drop
  /\ lastOp.outcome = "success"
  /\ query = D_drop
  /\ Len(edits) = 1
  /\ edits[1].pc = "done"
  /\ activeSchema = null
  /\ existingData = <<>>

\* C3: existingData never holds rows fetched for a table other than the one
\* the current draft references (a row of the collaborator names its table).
C3_GhostRowsOfCurrentTable ==
  \A n \in DOMAIN existingData : existingData[n][1] = DetectedTable(query)

\* the requests a call of runQuery has in flight
InFlight(r) == {q \in requests : q.run = r}

\* in the log of a call, the sending of kind comes after the answer to before
SentAfter(log, kind, before) ==
  \A i \in DOMAIN log :
    log[i] = <<"send", kind>> => \E j \in 1..(i - 1) : log[j] = <<"recv", before>>

\* within one call of runQuery the requests are sequential
RunSequential(r) ==
  LET run == runs[r]
  IN  run.pc = "active" =>
        /\ Cardinality(InFlight(r)) <= 1
        /\ IsMutating(run.tableName, toUpperCase(run.activeQuery))
             => /\ run.log[1] = <<"send", "snapshot">>
                /\ SentAfter(run.log, "execute", "snapshot")
        /\ SentAfter(run.log, "refresh", "execute")

PatternRank(c) ==
  IF c.kw = "INSERT" THEN 1
  ELSE IF c.kw \in {"FROM", "DELETE"} THEN 2
  ELSE IF c.kw = "UPDATE" THEN 3 ELSE 4

\* the clause of the highest-priority pattern, the leftmost one among equals
PriorityClause(cs) ==
  LET best == {n \in DOMAIN cs : \A m \in DOMAIN cs : PatternRank(cs[n]) <= PatternRank(cs[m])}
  IN  cs[Min(best)]

\* C5 as stated: the identifier returned is the one captured by the
\* highest-priority pattern that matches anywhere in the draft.
C5_PriorityFirst == ret # <<>> => ret[1] = PriorityClause(arg).name

\* C5 amended: detection is position-first: the identifier returned is the one
\* captured at the leftmost position of the draft where one of the patterns
\* matches, whatever the rank of the patterns that match further right.
C5_PositionFirst == ret # <<>> => ret[1] = arg[1].name

\* C5 witness: a draft UPDATE a FROM b, where the lower-priority pattern
\* stands first, gave the name of its first clause.
C5_Witness ==
  /\ ret # <<>>
  /\ Len(arg) = 2
  /\ arg[1].kw = "UPDATE"
  /\ arg[2].kw = "FROM"
  /\ arg[1].name # arg[2].name
  /\ ret[1] = arg[1].name

\* C6: for a draft containing CREATE TABLE t (c1 T1, ..., cn Tn), parseSchema
\* returns table t with exactly the columns c1..cn in their order, an INT
\* column classified Number and a VARCHAR column classified Text.
C6_ColumnsAsDeclared ==
  ret # <<>> =>
    LET schema == ret[1]
    IN  /\ schema # null
        /\ schema.name = arg.table
        /\ Len(schema.columns) = Len(arg.cols)
        /\ \A n \in DOMAIN arg.cols :
             /\ schema.columns[n].name = arg.cols[n].name
             /\ arg.cols[n].type = "INT" => schema.columns[n].type = "Number"
             /\ arg.cols[n].type = "VARCHAR" => schema.columns[n].type = "Text"

\* a cell trimmed and without the one pair of quotes that surrounds it
StripPair(cell) ==
  LET t == trim(cell)
  IN  IF Len(t) >= 2 /\ IsQuote(t[1]) /\ t[Len(t)] = t[1]
        THEN SubSeq(t, 2, Len(t) - 1) ELSE t

\* C7: every cell of every (closed) values group is trimmed and loses exactly
\* one pair of surrounding quotes, its other characters unchanged.
C7_CellsStripped ==
  (ret # <<>> /\ arg.closed) =>
    ret[1] = [g \in DOMAIN arg.groups |->
                [c \in DOMAIN arg.groups[g] |-> StripPair(arg.groups[g][c])]]

\* C8: one tuple per VALUES group in order of appearance, also for a last
\* group that has no closing parenthesis.
C8_UnterminatedGroup ==
  ret # <<>> => Len(ret[1]) = Len(arg.groups)

\* C9: after an edit (handled with no other write of the preview in between) whose
\* draft references a table with no registry entry and has no create-table
\* definition, no schema is shown: a schema shown before for another table is
\* cleared.
C9_UnknownTableCleared ==
  (/\ lastOp.op = "editDone"
   /\ lastOp.alone
   /\ matchTable(lastOp.val, EditorPatterns) # NoMatch
   /\ DetectedTable(lastOp.val) \notin RegistryNames \cup InheritedNames
   /\ parseSchema(lastOp.val) = null)
    => activeSchema = null

\* the question has one of the create-table key words
AsksCreateTable == \E n \in DOMAIN arg : toLowerCase(arg[n]) \in CreateWords

\* C10: for a question that contains create, new table or make table, the
\* roadmap analyzeQuestion has set is the three steps of the create-table
\* template in their order, whatever other key words the question has.
C10_CreateTableOverrides ==
  (roadmap # <<>> /\ AsksCreateTable)
    => /\ Len(roadmap) = 3
       /\ [n \in 1..3 |-> roadmap[n].id] = <<1, 2, 3>>
       /\ [n \in 1..3 |-> roadmap[n].regex]
            = <<"CREATE\\s+TABLE", "IF\\s+NOT\\s+EXISTS", "\\(.*\\)">>
       /\ roadmap = CreateTableSteps

\* C10 witness: a question with count and create got the create-table steps.
C10_Witness ==
  /\ arg = <<Q_create, Q_count>>
  /\ roadmap = CreateTableSteps

\* a word of the question is one of the key words K
HasWord(K) == \E n \in DOMAIN arg : arg[n] \in K

\* C11: for a question without a create-table key word the steps come from one
\* category, the first that matches in the order Aggregate, Delete,
\* SelectFilter: the two steps of its template in order, with the third step
\* exactly when its sub-test matches, ids 1, 2, (3); no category, no steps.
C11_OneCategoryFirstMatch ==
  (ret # <<>> /\ ~HasWord(CreateWords \cup {W_Create_cap})) =>
    LET r == ret[1]
        agg == HasWord(AggregateWords)
        del == HasWord(DeleteWords)
        sel == HasWord(SelectWords)
    IN  /\ roadmap = r
        /\ \A n \in DOMAIN r : r[n].id = n
        /\ agg => r = AggregateSteps
                        \o (IF HasWord(RenameWords) THEN <<RenameStep>> ELSE <<>>)
        /\ (~agg /\ del) => r = DeleteSteps
        /\ (~agg /\ ~del /\ sel)
             => r = SelectSteps \o (IF HasWord(FilterWords) THEN <<FilterStep>> ELSE <<>>)
        /\ (~agg /\ ~del /\ ~sel) => r = <<>>

\* C11 witness: the question "count delete" matches Aggregate and Delete and
\* got the two Aggregate steps only.
C11_Witness ==
  /\ arg = <<Q_count, Q_delete>>
  /\ ret = <<AggregateSteps>>
  /\ roadmap = AggregateSteps

\* the fragment is a column definition
IsColumnFragment(f) == f.col

\* C12: no column parseSchema returns is named PRIMARY, FOREIGN, CONSTRAINT or
\* KEY in any letter case, wherever the constraint fragments stand among the
\* column definitions, and the columns returned are the defined columns in
\* their declaration order.
C12_NoConstraintColumns ==
  ret # <<>> =>
    LET cols == ret[1].columns
        declared == SelectSeq(arg, IsColumnFragment)
    IN  /\ \A n \in DOMAIN cols : toUpperCase(cols[n].name) \notin ConstraintWords
        /\ [n \in DOMAIN cols |-> cols[n].name] = [n \in DOMAIN declared |-> declared[n].lead]

\* C12 witness: a lower-case constraint between two column definitions and an
\* upper-case one after them were left out, the two columns kept in order.
C12_Witness ==
  /\ ret # <<>>
  /\ Len(arg) = 3
  /\ arg[1].lead = <<"b">>
  /\ arg[2].lead = toLowerCase(W_PRIMARY)
  /\ arg[3].lead = <<"a">>
  /\ [n \in DOMAIN ret[1].columns |-> ret[1].columns[n].name] = <<(<<"b">>), (<<"a">>)>>

\* C13: the state an edit leaves is renderable: activeSchema is null or a
\* record whose field columns is a list of column definitions, for every
\* draft, also one whose detected table is outside the registry.
C13_Renderable == activeSchema = null \/ "columns" \in DOMAIN activeSchema

(***************************************************************************)
(* C14                                                                     *)
(***************************************************************************)
Succeeded == {"success", "successnomsg"}

\* C14 as stated, for a session with a single call of runQuery: when the
\* request of the statement is rejected or answered with status "error", the
\* call ends with a non-empty error message and no success message; when the
\* statement succeeds, the call ends with a success message and no error message
C14_MessageMatchesOutcome ==
  (Len(runs) = 1 /\ runs[1].pc = "done")
    => /\ (lastOp.op = "runExecute" /\ lastOp.outcome \notin Succeeded)
            => (error # "" /\ successMsg = "")
       /\ (\/ lastOp.op = "runRefresh"
           \/ (lastOp.op = "runExecute" /\ lastOp.outcome \in Succeeded))
            => (successMsg # "" /\ error = "")

(***************************************************************************)
(* C15                                                                     *)
(***************************************************************************)
\* C15 as stated, for an edit handled with no other write of the preview
\* state meanwhile: when the fetch of its ghost rows is rejected or answered
\* with a status other than "success", existingData is empty once the
\* handler has finished, and the handler sets no error message (no call
\* of runQuery being there to set one)
C15_FailedFetchEmpties ==
  (/\ lastOp.op = "editDone"
   /\ lastOp.outcome \in SelectOutcomes
   /\ lastOp.alone
   /\ \/ lastOp.outcome \in Rejects
      \/ SelectBody(<<>>, lastOp.outcome).status # "success")
    => /\ existingData = <<>>
       /\ runs = <<>> => error = ""

(***************************************************************************)
(* C16                                                                     *)
(***************************************************************************)
\* C16 as stated: while the structural preview is shown, every row of its
\* body, Existing or Draft, has exactly as many cells as activeSchema has
\* columns, and no Existing row comes after a Draft row
C16_RowsFitColumns ==
  "columns" \in DOMAIN activeSchema
    => /\ \A n \in DOMAIN PreviewBody :
            Len(PreviewBody[n].cells) = Len(activeSchema.columns)
       /\ \A n, m \in DOMAIN PreviewBody :
            (PreviewBody[n].key = "ex" /\ PreviewBody[m].key = "new") => n < m

(***************************************************************************)
(* C17                                                                     *)
(***************************************************************************)
\* C17 as stated, for a session of draft edits and fetch completions only (no
\* call of runQuery, the draft in the editor being one the learner typed):
\* once every call of handleEditorChange has finished, multiRowPreview holds
\* the tuples of the draft in the editor
C17_PreviewOfCurrentDraft ==
  (/\ runs = <<>>
   /\ query \in Drafts
   /\ lastOp.op = "editDone"
   /\ \A k \in DOMAIN edits : edits[k].pc = "done")
    => multiRowPreview = parseAllInsertRows(query)

(***************************************************************************)
(* C18                                                                     *)
(***************************************************************************)
\* C18: a call of handleEditorChange on a draft in which no table reference
\* is detected ends without awaiting a fetch and leaves activeSchema,
\* existingData, the error message and the requests in flight as they were
C18_NoMatchFrame ==
  [][(/\ Len(edits') = Len(edits) + 1
      /\ matchTable(query', EditorPatterns) = NoMatch)
       => /\ edits'[Len(edits')].pc = "done"
          /\ activeSchema' = activeSchema
          /\ existingData' = existingData
          /\ error' = error
          /\ requests' = requests]_vars

\* an edit without a table reference has been handled while a schema and
\* ghost rows were in the preview
C18_Witness ==
  /\ lastOp.op = "editDone"
  /\ lastOp.outcome = "nofetch"
  /\ query = D_noref
  /\ activeSchema # null
  /\ existingData # <<>>

(***************************************************************************)
(* C19                                                                     *)
(***************************************************************************)
\* C19: a step that changes the roadmap is ANALYZE (the roadmap becomes the
\* steps of the question as it stands, nothing else changes) or Clear All (the
\* roadmap becomes empty); and a step that leaves the draft and the roadmap
\* as they are leaves the completion mark of every step as it is
C19_RoadmapFrame ==
  [][/\ roadmap' # roadmap
          => \/ /\ roadmap' = RoadmapSteps(studentQuestion)
                /\ UNCHANGED <<query, results, sources, existingData, multiRowPreview,
                               activeSchema, successMsg, error, studentQuestion, events,
                               edits, runs, requests, lastOp>>
             \/ /\ roadmap' = <<>>
                /\ lastOp'.op = "clear"
     /\ (query' = query /\ roadmap' = roadmap) => RoadmapMarks' = RoadmapMarks]_vars

\* the roadmap of an analysed question is still there, its second step marked,
\* after the question text was emptied and a draft edit was handled to its end
C19_Witness ==
  /\ roadmap = AggregateSteps
  /\ studentQuestion = <<>>
  /\ lastOp.op = "editDone"
  /\ lastOp.outcome \in SelectOutcomes
  /\ RoadmapMarks = <<FALSE, TRUE>>

(***************************************************************************)
(* C20                                                                     *)
(***************************************************************************)
\* C20 as stated, for the single call of runQuery of a session (sources and
\* results, which only runQuery and Clear All write, were empty before it):
\* when the request of the statement is rejected or answered with status
\* "error", sources and results hold the values they had before the call
C20_FailedRunFrame ==
  (/\ Len(runs) = 1
   /\ runs[1].pc = "done"
   /\ lastOp.op = "runExecute"
   /\ lastOp.outcome \notin Succeeded)
    => /\ sources = <<>>
       /\ results = emptyResults

(***************************************************************************)
(* C21                                                                     *)
(***************************************************************************)
\* C21 as stated, for the slots that only handleEditorChange, runQuery and
\* Clear All write: right after Clear All the draft, the results, the sources,
\* the schema, the ghost rows, the draft rows and both messages have their
\* initial empty values
C21_ClearAllResets ==
  lastOp.op = "clear"
    => /\ query = <<>>
       /\ results = emptyResults
       /\ sources = <<>>
       /\ activeSchema = null
       /\ successMsg = ""
       /\ existingData = <<>>
       /\ multiRowPreview = <<>>
       /\ error = ""

(***************************************************************************)
(* C22                                                                     *)
(***************************************************************************)
\* C22 as stated: for a draft CREATE TABLE IF NOT EXISTS t (c1 T1, ..., cn Tn)
\* the three CreateTable steps are marked, the table name detected by
\* handleEditorChange and by runQuery is t, and parseSchema returns the table
\* t with the columns c1..cn
C22_ParsersAgree ==
  (ret # <<>> /\ ~arg.trailer)
    => /\ ret[1].marks = <<TRUE, TRUE, TRUE>>
       /\ ret[1].editor = arg.table
       /\ ret[1].run = arg.table
       /\ ret[1].schema # null
       /\ ret[1].schema.name = arg.table
       /\ Len(ret[1].schema.columns) = Len(arg.cols)
       /\ \A n \in DOMAIN arg.cols : ret[1].schema.columns[n].name = arg.cols[n].name

=============================================================================
